---- MODULE Spec2Model ----
(***************************************************************************)
(* A model of the NuScenes importer of stremf (src/src/schema/nuscenes.rs  *)
(* and src/src/schema/nuscenes/*.rs): the nine record collections are      *)
(* loaded into token-keyed indices, every scene's sample chain is walked   *)
(* and every sample becomes a Frame of DetectionRecords whose boxes are    *)
(* the annotations projected onto the camera.                              *)
(*                                                                         *)
(* Numbers are f64 in the program.  The model keeps them exact: the        *)
(* inputs are integers, quaternions have an integer norm, a unit           *)
(* quaternion is kept as twice its components (so that the rotations by a  *)
(* third of a turn, (1 + i + j + k) / 2, are integers too), and the        *)
(* quotients of the perspective division are kept as pairs <<n, d>>.       *)
(***************************************************************************)
EXTENDS Integers, Sequences, FiniteSets, TLC

\* ------------------------------------------------------------------ values

\* Option<T>.
None == [some |-> FALSE, v |-> 0]
Some(x) == [some |-> TRUE, v |-> x]

\* serde_json::Value, as far as the decoding of camera_intrinsic tells
\* values apart.
JNull == [t |-> "null", n |-> 0, a |-> <<>>]
JNum(x) == [t |-> "num", n |-> x, a |-> <<>>]
JStr == [t |-> "str", n |-> 0, a |-> <<>>]
JArr(xs) == [t |-> "arr", n |-> 0, a |-> xs]
JRow(r) == JArr([i \in 1..Len(r) |-> JNum(r[i])])
JMatrix(m) == JArr([i \in 1..Len(m) |-> JRow(m[i])])

\* The outcome of import(): still running, Ok(datastreams), Err(e) returned
\* to the caller, or a panic (an unwrap() on None/Err) that unwinds the
\* process.  `why` names the failing file or the failing unwrap.
Running == [kind |-> "running", why |-> ""]
Ok == [kind |-> "ok", why |-> ""]
Err(why) == [kind |-> "err", why |-> why]
Panic(why) == [kind |-> "panic", why |-> why]

\* ------------------------------------------------------------------ bounds

\* The walk of a sample chain is cut after MaxVisits samples, so that a
\* chain with a cycle has finitely many states.
MaxVisits == 4

\* ------------------------------------------------------------------ sequences

Range(s) == {s[i] : i \in 1..Len(s)}

RECURSIVE SelectIdx(_, _, _)
\* The positions of s, from i on, whose record has sample_token tok.
SelectIdx(s, tok, i) ==
    IF i > Len(s) THEN <<>>
    ELSE IF s[i].sample_token = tok
         THEN <<s[i]>> \o SelectIdx(s, tok, i + 1)
         ELSE SelectIdx(s, tok, i + 1)

\* records.into_iter().map(|x| (x.token.clone(), x)).collect::<HashMap>():
\* one entry per token, a later record replacing an earlier one.
ByToken(records) ==
    [tok \in {records[i].token : i \in 1..Len(records)} |->
        records[CHOOSE i \in 1..Len(records) :
                   /\ records[i].token = tok
                   /\ \A j \in (i + 1)..Len(records) : records[j].token # tok]]

\* for r in records { map.entry(r.sample_token).or_default().push(r) }:
\* the records of each sample, in file order.
BySampleUnfiltered(records) ==
    [tok \in {records[i].sample_token : i \in 1..Len(records)} |-> records]
BySample(records) ==
    [tok \in {records[i].sample_token : i \in 1..Len(records)} |->
        SelectIdx(records, tok, 1)]

\* ------------------------------------------------------------------ decoding

RowIsNumeric(row) == \A i \in 1..Len(row.a) : row.a[i].t = "num"

\* deserialize_intrinsic: an empty array and every non-array value decode to
\* None; a non-empty array is taken to be three rows of three numbers, and
\* each unwrap() on another shape panics.
deserialize_intrinsic(v) ==
    IF v.t # "arr" THEN [panic |-> FALSE, v |-> None]
    ELSE IF Len(v.a) = 0 THEN [panic |-> FALSE, v |-> None]
    ELSE IF \E i \in 1..Len(v.a) :
               \/ v.a[i].t # "arr"
               \/ ~RowIsNumeric(v.a[i])
               \/ Len(v.a[i].a) # 3
         THEN [panic |-> TRUE, v |-> None]
    ELSE IF Len(v.a) # 3 THEN [panic |-> TRUE, v |-> None]
    ELSE [panic |-> FALSE,
          v |-> Some([i \in 1..3 |-> [j \in 1..3 |-> v.a[i].a[j].n]])]

\* The Calibration a record of calibrated_sensor.json decodes to.
Calibration(raw) ==
    [token |-> raw.token,
     sensor_token |-> raw.sensor_token,
     rotation |-> raw.rotation,
     translation |-> raw.translation,
     camera_intrinsic |-> deserialize_intrinsic(raw.camera_intrinsic).v]

\* NuScenes::load: Err when the file cannot be opened or serde rejects its
\* content, the records otherwise.  A file is [status, records].
load(file) ==
    IF file.status = "missing" THEN [ok |-> FALSE, why |-> "open", data |-> <<>>]
    ELSE IF file.status = "invalid" THEN [ok |-> FALSE, why |-> "parse", data |-> <<>>]
    ELSE [ok |-> TRUE, why |-> "", data |-> file.records]

\* ------------------------------------------------------------------ numbers

RECURSIVE Gcd(_, _)
Gcd(a, b) == IF b = 0 THEN a ELSE Gcd(b, a % b)

Abs(x) == IF x < 0 THEN -x ELSE x

\* A quotient n / d of two f64 that hold integers, kept as <<n, d>>.  With
\* d = 0 it is what IEEE division gives: +inf, -inf or NaN (0 / 0).
Reduce(q) ==
    IF q[2] = 0 THEN q
    ELSE LET g == Gcd(Abs(q[1]), Abs(q[2]))
             s == IF q[2] < 0 THEN -1 ELSE 1
         IN  <<s * (q[1] \div g), s * (q[2] \div g)>>

\* x > 0.0 and x < w for a quotient x; a comparison with NaN is false.
QGtZero(q) ==
    IF q[2] > 0 THEN q[1] > 0 ELSE IF q[2] < 0 THEN q[1] < 0 ELSE q[1] > 0
QLtInt(q, w) ==
    IF q[2] > 0 THEN q[1] < w * q[2]
    ELSE IF q[2] < 0 THEN q[1] > w * q[2]
    ELSE q[1] < 0

\* Arithmetic and order of finite quotients in reduced form (d > 0).
QLe(a, b) == a[1] * b[2] <= b[1] * a[2]
QAdd(a, b) == Reduce(<<a[1] * b[2] + b[1] * a[2], a[2] * b[2]>>)
QSub(a, b) == Reduce(<<a[1] * b[2] - b[1] * a[2], a[2] * b[2]>>)
QHalf(a) == Reduce(<<a[1], 2 * a[2]>>)

\* row.iter().copied().fold(f64::NAN, f64::min) and (..., f64::max): f64::min
\* and f64::max return the other operand when one is NaN, so the fold over
\* finite values is their least and greatest.
FoldMin(row) ==
    Reduce(row[CHOOSE i \in 1..Len(row) :
                  \A j \in 1..Len(row) : QLe(Reduce(row[i]), Reduce(row[j]))])
FoldMax(row) ==
    Reduce(row[CHOOSE i \in 1..Len(row) :
                  \A j \in 1..Len(row) : QLe(Reduce(row[j]), Reduce(row[i]))])

\* ------------------------------------------------------------------ nalgebra

\* A quaternion is <<w, i, j, k>>.  A unit quaternion u is kept as 2 * u.
Norm2(q) == q[1] * q[1] + q[2] * q[2] + q[3] * q[3] + q[4] * q[4]
ISqrt(n) == CHOOSE s \in 0..n : s * s = n

\* UnitQuaternion::from_quaternion: q / |q| (kept as 2 * q / |q|).
from_quaternion(q) ==
    LET s == ISqrt(Norm2(q))
    IN  <<(2 * q[1]) \div s, (2 * q[2]) \div s, (2 * q[3]) \div s, (2 * q[4]) \div s>>

\* UnitQuaternion::inverse: the conjugate.
inverse(q) == <<q[1], -q[2], -q[3], -q[4]>>

\* Translation::inverse.
Negate(t) == <<-t[1], -t[2], -t[3]>>

\* The Hamilton product a * b of two unit quaternions (2a * 2b = 2 * 2ab).
QMul(a, b) ==
    <<(a[1] * b[1] - a[2] * b[2] - a[3] * b[3] - a[4] * b[4]) \div 2,
      (a[1] * b[2] + a[2] * b[1] + a[3] * b[4] - a[4] * b[3]) \div 2,
      (a[1] * b[3] - a[2] * b[4] + a[3] * b[1] + a[4] * b[2]) \div 2,
      (a[1] * b[4] + a[2] * b[3] - a[3] * b[2] + a[4] * b[1]) \div 2>>

\* UnitQuaternion::to_rotation_matrix, rows first (the entries are quadratic
\* in the quaternion: those of 2 * u are 4 times those of u).
to_rotation_matrix(q) ==
    LET w == q[1]
        i == q[2]
        j == q[3]
        k == q[4]
    IN  << <<(w * w + i * i - j * j - k * k) \div 4, (i * j - w * k) \div 2,
             (i * k + w * j) \div 2>>,
           <<(i * j + w * k) \div 2, (w * w - i * i + j * j - k * k) \div 4,
             (j * k - w * i) \div 2>>,
           <<(i * k - w * j) \div 2, (j * k + w * i) \div 2,
             (w * w - i * i - j * j + k * k) \div 4>> >>

\* A 3x3 matrix times a vector.
MatVec(m, v) ==
    << m[1][1] * v[1] + m[1][2] * v[2] + m[1][3] * v[3],
       m[2][1] * v[1] + m[2][2] * v[2] + m[2][3] * v[3],
       m[3][1] * v[1] + m[3][2] * v[2] + m[3][3] * v[3] >>

\* A 3x3 matrix times a 3x8 matrix; both are sequences of rows.
Dot(r, c, n) == r[1] * c[1][n] + r[2] * c[2][n] + r[3] * c[3][n]
RowTimes(r, c) ==
    << Dot(r, c, 1), Dot(r, c, 2), Dot(r, c, 3), Dot(r, c, 4),
       Dot(r, c, 5), Dot(r, c, 6), Dot(r, c, 7), Dot(r, c, 8) >>
MatMul(m, c) == << RowTimes(m[1], c), RowTimes(m[2], c), RowTimes(m[3], c) >>

\* A row of 8 times a scalar, plus a scalar, and divided by a row.
Scale(k, r) ==
    << k * r[1], k * r[2], k * r[3], k * r[4], k * r[5], k * r[6], k * r[7], k * r[8] >>
AddScalar(r, x) ==
    << r[1] + x, r[2] + x, r[3] + x, r[4] + x, r[5] + x, r[6] + x, r[7] + x, r[8] + x >>
ComponentDiv(r, d) ==
    << <<r[1], d[1]>>, <<r[2], d[2]>>, <<r[3], d[3]>>, <<r[4], d[4]>>,
       <<r[5], d[5]>>, <<r[6], d[6]>>, <<r[7], d[7]>>, <<r[8], d[8]>> >>

\* ------------------------------------------------------------------ Annotation

\* The signs of the 8 corners of the unit box.
SignX == <<1, 1, 1, 1, -1, -1, -1, -1>>
SignY == <<1, -1, -1, 1, 1, -1, -1, 1>>
SignZ == <<1, 1, -1, -1, 1, 1, -1, -1>>

\* The rows of a 3x8 matrix, each moved by one component of t.
AddRows(c, t) == << AddScalar(c[1], t[1]), AddScalar(c[2], t[2]), AddScalar(c[3], t[3]) >>

\* Annotation::corners: the box of size [width, length, height] about the
\* origin, rotated by the annotation's rotation, moved to its translation.
corners(a) ==
    AddRows(MatMul(to_rotation_matrix(from_quaternion(a.rotation)),
                   << Scale(a.size[2] \div 2, SignX),
                      Scale(a.size[1] \div 2, SignY),
                      Scale(a.size[3] \div 2, SignZ) >>),
            a.translation)

\* Annotation::translate: component-wise addition.
Annotation_translate(a, t) ==
    [a EXCEPT !.translation = << a.translation[1] + t[1], a.translation[2] + t[2],
                                 a.translation[3] + t[3] >>]

\* Annotation::rotate: the position is rotated about the origin and the
\* orientation becomes rotation * self.rotation, a unit quaternion (which
\* from_quaternion, applied by every reader of the field, leaves as it is).
rotate(a, q) ==
    [a EXCEPT !.translation = MatVec(to_rotation_matrix(q), a.translation),
              !.rotation = QMul(q, from_quaternion(a.rotation))]

\* Annotation::transform: translate, then rotate.
transformRotateFirst(a, t, q) == Annotation_translate(rotate(a, q), t)
transform(a, t, q) == rotate(Annotation_translate(a, t), q)

\* Each row of a 3x8 matrix divided, component by component, by its third.
Normalize(p) == << ComponentDiv(p[1], p[3]), ComponentDiv(p[2], p[3]), ComponentDiv(p[3], p[3]) >>

\* Annotation::projection: view * corners, each column divided by its third
\* row.  Row r of the result is a sequence of 8 quotients.
projection(a, view) == Normalize(MatMul(view, corners(a)))

\* The near plane of Annotation::inside.
NearPlane == 1

\* The three tests of Annotation::inside on the corners c and their
\* projection p.
VisibleFromNearPlane(c, p, width, height) ==
    /\ \A n \in 1..8 : QGtZero(p[1][n]) /\ QLtInt(p[1][n], width)
    /\ \A n \in 1..8 : QGtZero(p[2][n]) /\ QLtInt(p[2][n], height)
    /\ \A n \in 1..8 : c[3][n] >= NearPlane
Visible(c, p, width, height) ==
    /\ \A n \in 1..8 : QGtZero(p[1][n]) /\ QLtInt(p[1][n], width)
    /\ \A n \in 1..8 : QGtZero(p[2][n]) /\ QLtInt(p[2][n], height)
    /\ \A n \in 1..8 : c[3][n] > NearPlane

\* Annotation::inside: every corner projects strictly inside the image and
\* lies strictly beyond the near plane.
inside(a, view, width, height) == Visible(corners(a), projection(a, view), width, height)

\* ------------------------------------------------------------------ NuScenes

\* NuScenes::channel: the closed list of camera channels.
channelWithLidar(name) ==
    CASE name = "CAM_FRONT" -> Some("cam::front")
      [] name = "CAM_FRONT_ZOOMED" -> Some("cam::front::zoomed")
      [] name = "CAM_FRONT_LEFT" -> Some("cam::front::left")
      [] name = "CAM_FRONT_RIGHT" -> Some("cam::front::right")
      [] name = "CAM_BACK" -> Some("cam::back")
      [] name = "CAM_BACK_LEFT" -> Some("cam::back::left")
      [] name = "CAM_BACK_RIGHT" -> Some("cam::back::right")
      [] name = "LIDAR_TOP" -> Some("lidar::top")
      [] OTHER -> None
channel(name) ==
    CASE name = "CAM_FRONT" -> Some("cam::front")
      [] name = "CAM_FRONT_ZOOMED" -> Some("cam::front::zoomed")
      [] name = "CAM_FRONT_LEFT" -> Some("cam::front::left")
      [] name = "CAM_FRONT_RIGHT" -> Some("cam::front::right")
      [] name = "CAM_BACK" -> Some("cam::back")
      [] name = "CAM_BACK_LEFT" -> Some("cam::back::left")
      [] name = "CAM_BACK_RIGHT" -> Some("cam::back::right")
      [] OTHER -> None

\* NuScenes::image: the image reference of a SensorData record.
image(data) ==
    IF data.width.some /\ data.height.some
    THEN Some([filename |-> data.filename,
               width |-> data.width.v,
               height |-> data.height.v])
    ELSE None

\* NuScenes::translate: the annotation moved into the frame of the ego pose,
\* then into the frame of the calibrated sensor.
NuScenes_translateCalibrationFirst(annotation, ego, calibration) ==
    transform(
        transform(annotation,
                  Negate(calibration.translation),
                  inverse(from_quaternion(calibration.rotation))),
        Negate(ego.translation),
        inverse(from_quaternion(ego.rotation)))
NuScenes_translate(annotation, ego, calibration) ==
    transform(
        transform(annotation,
                  Negate(ego.translation),
                  inverse(from_quaternion(ego.rotation))),
        Negate(calibration.translation),
        inverse(from_quaternion(calibration.rotation)))

\* Annotation::new(label, Some(instance), 1.0, aa::Region::new(Point(xmin +
\* width / 2, ymin + height / 2), width, height)) with width = xmax - xmin
\* and height = ymax - ymin.
BoxAtCorner(label, instance_token, xmin, xmax, ymin, ymax) ==
    [label |-> label,
     id |-> Some(instance_token),
     score |-> 1,
     center |-> <<xmin, ymin>>,
     width |-> QSub(xmax, xmin),
     height |-> QSub(ymax, ymin)]
Box(label, instance_token, xmin, xmax, ymin, ymax) ==
    [label |-> label,
     id |-> Some(instance_token),
     score |-> 1,
     center |-> <<QAdd(xmin, QHalf(QSub(xmax, xmin))), QAdd(ymin, QHalf(QSub(ymax, ymin)))>>,
     width |-> QSub(xmax, xmin),
     height |-> QSub(ymax, ymin)]

\* The box NuScenes::annotations pushes for the projected corners m of a
\* visible annotation: the extent of their x and of their y.
Region(label, instance_token, m) ==
    Box(label, instance_token, FoldMin(m[1]), FoldMax(m[1]), FoldMin(m[2]), FoldMax(m[2]))

\* res.entry(label).or_default().push(box)
Push(res, label, box) ==
    IF label \in DOMAIN res
    THEN [res EXCEPT ![label] = Append(@, box)]
    ELSE res @@ (label :> <<box>>)

\* if a.inside(viewport, width, height) { res.entry(label).or_default().push(..) }
\* for the annotation a, already in the frame of the sensor.
PushVisible(res, label, a, viewport, width, height) ==
    IF inside(a, viewport, width, height)
    THEN Push(res, label, Region(label, a.instance_token, projection(a, viewport)))
    ELSE res

RECURSIVE AnnotationLoop(_, _, _, _, _, _, _, _)
\* The loop of NuScenes::annotations from annotation i on.  Yields
\* [panic, res]: panic names the unwrap() that failed, "" when none did.
AnnotationLoop(i, res, data, ego, calibration, anns, insts, cats) ==
    IF i > Len(anns) THEN [panic |-> "", res |-> res]
    ELSE IF anns[i].instance_token \notin DOMAIN insts
         THEN [panic |-> "instance_token", res |-> res]
    ELSE IF insts[anns[i].instance_token].category_token \notin DOMAIN cats
         THEN [panic |-> "category_token", res |-> res]
    ELSE IF ~data.width.some THEN [panic |-> "width", res |-> res]
    ELSE IF ~data.height.some THEN [panic |-> "height", res |-> res]
    ELSE AnnotationLoop(
             i + 1,
             PushVisible(res,
                         cats[insts[anns[i].instance_token].category_token].name,
                         NuScenes_translate(anns[i], ego, calibration),
                         calibration.camera_intrinsic.v,
                         data.width.v, data.height.v),
             data, ego, calibration, anns, insts, cats)

\* NuScenes::annotations: the boxes of the annotations of a sample that one
\* camera sees whole, by category name.
NuScenes_annotations(data, ego, calibration, anns, insts, cats) ==
    IF ~calibration.camera_intrinsic.some
    THEN [panic |-> "camera_intrinsic", res |-> <<>>]
    ELSE AnnotationLoop(1, <<>>, data, ego, calibration, anns, insts, cats)

\* ------------------------------------------------------------------ state

VARIABLES
    input,          \* the dataset directory: one [status, records] per file
    pc,             \* the file import() loads next, "scenes", "walk" or "done"
    result,         \* the outcome of import()
    scenes,         \* HashMap<SceneToken, NuScene>
    samples,        \* HashMap<SampleToken, NuSample>
    annotations,    \* HashMap<SampleToken, Vec<NuAnnotation>>
    datas,          \* HashMap<SampleToken, Vec<NuData>>
    instances,      \* HashMap<InstanceToken, NuInstance>
    categories,     \* HashMap<CategoryToken, NuCategory>
    egos,           \* HashMap<EgoToken, NuEgo>
    calibrations,   \* HashMap<CalibrationToken, NuCalibration>
    sensors,        \* HashMap<SensorToken, NuSensor>
    pending,        \* the scenes scenes.values() has yet to yield
    scene,          \* the token of the scene being walked, "" between scenes
    frames,         \* the frames of the scene being walked
    index,          \* the index of its next frame
    current,        \* the token the walk looks up next
    datastreams     \* the (scene token, frames) pairs pushed so far

db == <<scenes, samples, annotations, datas, instances, categories, egos,
        calibrations, sensors>>
walk == <<pending, scene, frames, index, current, datastreams>>
vars == <<input, pc, result, db, walk>>

\* ------------------------------------------------------------------ import

\* Frame::new(index), with the token of the sample it is built for kept
\* beside it.
NewFrameOneBased(i, sample) == [index |-> i + 1, samples |-> <<>>, of |-> sample.token]
NewFrame(i, sample) == [index |-> i, samples |-> <<>>, of |-> sample.token]

\* DetectionRecord::new(channel, image), with the SensorData record it is
\* built from kept beside it.
NewRecord(chan, data) ==
    [channel |-> chan, image |-> image(data), annotations |-> <<>>, data |-> data]

\* record.annotations = self.annotations(..)
AttachTo(record, r) ==
    [panic |-> r.panic, record |-> [record EXCEPT !.annotations = r.res]]

\* The body of `if let Some(channel) = self.channel(..)` for one SensorData
\* record: its DetectionRecord, with the annotations of the sample when the
\* sample has any.  Yields [panic, record].
Detect(chan, data, calibration, sample) ==
    IF sample.token \notin DOMAIN annotations
    THEN [panic |-> "", record |-> NewRecord(chan, data)]
    ELSE IF data.ego_pose_token \notin DOMAIN egos
    THEN [panic |-> "ego_pose_token", record |-> NewRecord(chan, data)]
    ELSE AttachTo(NewRecord(chan, data),
                  NuScenes_annotations(data, egos[data.ego_pose_token], calibration,
                                       annotations[sample.token], instances, categories))

\* frame.samples.push(Sample::ObjectDetection(record)), unless building the
\* record panicked.
PushRecord(acc, d) ==
    IF d.panic # "" THEN [panic |-> d.panic, samples |-> acc]
    ELSE [panic |-> "", samples |-> Append(acc, d.record)]

RECURSIVE DataLoop(_, _, _, _)
\* The loop of import() over the SensorData records ds of one sample, from
\* record i on, acc being [panic, samples] with samples = frame.samples.
DataLoop(ds, i, acc, sample) ==
    IF i > Len(ds) \/ acc.panic # "" THEN acc
    ELSE IF ds[i].calibrated_sensor_token \notin DOMAIN calibrations
         THEN [acc EXCEPT !.panic = "calibrated_sensor_token"]
    ELSE IF calibrations[ds[i].calibrated_sensor_token].sensor_token \notin DOMAIN sensors
         THEN [acc EXCEPT !.panic = "sensor_token"]
    ELSE IF ~channel(sensors[calibrations[ds[i].calibrated_sensor_token].sensor_token]
                        .channel).some
         THEN DataLoop(ds, i + 1, acc, sample)
    ELSE DataLoop(
             ds, i + 1,
             PushRecord(acc.samples,
                        Detect(channel(sensors[calibrations[ds[i].calibrated_sensor_token]
                                                  .sensor_token].channel).v,
                               ds[i],
                               calibrations[ds[i].calibrated_sensor_token],
                               sample)),
             sample)

\* The frame with the records the loop over the SensorData records left.
FrameOf(frame, r) == [panic |-> r.panic, frame |-> [frame EXCEPT !.samples = r.samples]]

\* One iteration of the while-let loop of import(): the Frame of a sample.
\* Yields [panic, frame].
BuildFrame(i, sample) ==
    IF sample.token \notin DOMAIN datas
    THEN [panic |-> "sample_data", frame |-> NewFrame(i, sample)]
    ELSE FrameOf(NewFrame(i, sample),
                 DataLoop(datas[sample.token], 1, [panic |-> "", samples |-> <<>>], sample))

\* The locals of the for loop over the scenes, as it enters a scene.
NewWalkSharedIndex(s) ==
    [frames |-> <<>>, index |-> index, current |-> s.first_sample_token]
NewWalk(s) == [frames |-> <<>>, index |-> 0, current |-> s.first_sample_token]

\* datastreams.push((scene.token.clone(), frames))
PushStream(streams, s, fs) == Append(streams, <<s.token, fs>>)

Fail(file, why) == pc' = "done" /\ result' = Err(<<file, why>>)
Goto(next) == pc' = next /\ UNCHANGED result

LoadScene ==
    /\ pc = "scene.json"
    /\ LET r == load(input.scene)
       IN  IF r.ok THEN scenes' = ByToken(r.data) /\ Goto("sample.json")
           ELSE Fail("scene.json", r.why) /\ UNCHANGED scenes
    /\ UNCHANGED <<input, samples, annotations, datas, instances, categories, egos,
                   calibrations, sensors, walk>>

LoadSample ==
    /\ pc = "sample.json"
    /\ LET r == load(input.sample)
       IN  IF r.ok THEN samples' = ByToken(r.data) /\ Goto("sample_annotation.json")
           ELSE Fail("sample.json", r.why) /\ UNCHANGED samples
    /\ UNCHANGED <<input, scenes, annotations, datas, instances, categories, egos,
                   calibrations, sensors, walk>>

LoadAnnotation ==
    /\ pc = "sample_annotation.json"
    /\ LET r == load(input.sample_annotation)
       IN  IF r.ok THEN annotations' = BySample(r.data) /\ Goto("sample_data.json")
           ELSE Fail("sample_annotation.json", r.why) /\ UNCHANGED annotations
    /\ UNCHANGED <<input, scenes, samples, datas, instances, categories, egos,
                   calibrations, sensors, walk>>

LoadData ==
    /\ pc = "sample_data.json"
    /\ LET r == load(input.sample_data)
       IN  IF r.ok THEN datas' = BySample(r.data) /\ Goto("instance.json")
           ELSE Fail("sample_data.json", r.why) /\ UNCHANGED datas
    /\ UNCHANGED <<input, scenes, samples, annotations, instances, categories, egos,
                   calibrations, sensors, walk>>

LoadInstance ==
    /\ pc = "instance.json"
    /\ LET r == load(input.instance)
       IN  IF r.ok THEN instances' = ByToken(r.data) /\ Goto("category.json")
           ELSE Fail("instance.json", r.why) /\ UNCHANGED instances
    /\ UNCHANGED <<input, scenes, samples, annotations, datas, categories, egos,
                   calibrations, sensors, walk>>

LoadCategory ==
    /\ pc = "category.json"
    /\ LET r == load(input.category)
       IN  IF r.ok THEN categories' = ByToken(r.data) /\ Goto("ego_pose.json")
           ELSE Fail("category.json", r.why) /\ UNCHANGED categories
    /\ UNCHANGED <<input, scenes, samples, annotations, datas, instances, egos,
                   calibrations, sensors, walk>>

LoadEgo ==
    /\ pc = "ego_pose.json"
    /\ LET r == load(input.ego_pose)
       IN  IF r.ok THEN egos' = ByToken(r.data) /\ Goto("calibrated_sensor.json")
           ELSE Fail("ego_pose.json", r.why) /\ UNCHANGED egos
    /\ UNCHANGED <<input, scenes, samples, annotations, datas, instances, categories,
                   calibrations, sensors, walk>>

\* serde decodes every record of the file before load() returns; a record
\* whose camera_intrinsic makes deserialize_intrinsic panic ends the process.
LoadCalibration ==
    /\ pc = "calibrated_sensor.json"
    /\ LET r == load(input.calibrated_sensor)
       IN  IF ~r.ok
           THEN Fail("calibrated_sensor.json", r.why) /\ UNCHANGED calibrations
           ELSE IF \E i \in 1..Len(r.data) :
                      deserialize_intrinsic(r.data[i].camera_intrinsic).panic
           THEN /\ pc' = "done"
                /\ result' = Panic("deserialize_intrinsic")
                /\ UNCHANGED calibrations
           ELSE /\ calibrations' = ByToken([i \in 1..Len(r.data) |-> Calibration(r.data[i])])
                /\ Goto("sensor.json")
    /\ UNCHANGED <<input, scenes, samples, annotations, datas, instances, categories,
                   egos, sensors, walk>>

LoadSensor ==
    /\ pc = "sensor.json"
    /\ LET r == load(input.sensor)
       IN  IF r.ok THEN sensors' = ByToken(r.data) /\ Goto("scenes")
           ELSE Fail("sensor.json", r.why) /\ UNCHANGED sensors
    /\ UNCHANGED <<input, scenes, samples, annotations, datas, instances, categories,
                   egos, calibrations>>
    /\ pending' = IF pc' = "scenes" THEN DOMAIN scenes ELSE pending
    /\ UNCHANGED <<scene, frames, index, current, datastreams>>

\* for scene in scenes.values(): the next scene, in the arbitrary order of
\* the HashMap.
NextScene ==
    /\ pc = "scenes"
    /\ \E t \in pending :
          /\ scene' = t
          /\ frames' = NewWalk(scenes[t]).frames
          /\ index' = NewWalk(scenes[t]).index
          /\ current' = NewWalk(scenes[t]).current
    /\ pc' = "walk"
    /\ UNCHANGED <<input, result, db, pending, datastreams>>

\* while let Some(sample) = samples.get(current) { ... }: one iteration.
VisitSample ==
    /\ pc = "walk"
    /\ current \in DOMAIN samples
    /\ index < MaxVisits
    /\ LET sample == samples[current]
           r == BuildFrame(index, sample)
       IN  IF r.panic # ""
           THEN /\ pc' = "done"
                /\ result' = Panic(r.panic)
                /\ UNCHANGED <<frames, index, current>>
           ELSE /\ frames' = Append(frames, r.frame)
                /\ index' = index + 1
                /\ current' = sample.next
                /\ UNCHANGED <<pc, result>>
    /\ UNCHANGED <<input, db, pending, scene, datastreams>>

\* The while-let loop ends at the first token that is not in the index.
EndScene ==
    /\ pc = "walk"
    /\ current \notin DOMAIN samples
    /\ datastreams' = PushStream(datastreams, scenes[scene], frames)
    /\ pending' = pending \ {scene}
    /\ scene' = ""
    /\ pc' = "scenes"
    /\ UNCHANGED <<input, result, db, frames, index, current>>

\* Ok(datastreams)
Return ==
    /\ pc = "scenes"
    /\ pending = {}
    /\ pc' = "done"
    /\ result' = Ok
    /\ UNCHANGED <<input, db, walk>>

Next ==
    \/ LoadScene
    \/ LoadSample
    \/ LoadAnnotation
    \/ LoadData
    \/ LoadInstance
    \/ LoadCategory
    \/ LoadEgo
    \/ LoadCalibration
    \/ LoadSensor
    \/ NextScene
    \/ VisitSample
    \/ EndScene
    \/ Return

\* ------------------------------------------------------------------ datasets

\* The records of the nine files, with the fields import() reads (and the
\* declared sample count, last sample and timestamps, which it does not).
Scene(tok, first, nbr, last) ==
    [token |-> tok, nbr_samples |-> nbr, first_sample_token |-> first,
     last_sample_token |-> last]
Sample(tok, next, ts) == [token |-> tok, timestamp |-> ts, next |-> next]
Data(tok, sample, cal, ego, w, h) ==
    [token |-> tok, filename |-> tok, width |-> w, height |-> h,
     ego_pose_token |-> ego, sample_token |-> sample, calibrated_sensor_token |-> cal]
Annotation(tok, sample, inst, tr, size, rot) ==
    [token |-> tok, sample_token |-> sample, instance_token |-> inst,
     translation |-> tr, size |-> size, rotation |-> rot]
Instance(tok, cat) == [token |-> tok, category_token |-> cat]
Category(tok, name) == [token |-> tok, name |-> name]
Ego(tok, rot, tr) == [token |-> tok, rotation |-> rot, translation |-> tr]
RawCalibration(tok, sen, rot, tr, intr) ==
    [token |-> tok, sensor_token |-> sen, rotation |-> rot, translation |-> tr,
     camera_intrinsic |-> intr]
Sensor(tok, chan) == [token |-> tok, channel |-> chan]

File(records) == [status |-> "ok", records |-> records]

Identity == <<1, 0, 0, 0>>
Origin == <<0, 0, 0>>

\* The rotation by a third of a turn about the axis (1, 1, 1), which takes
\* x to y, y to z and z to x; as a quaternion of length 2.
Third == <<1, 1, 1, 1>>

\* A pinhole camera of focal length 2 with its principal point in the middle
\* of an 8 x 6 image.
Pinhole == << <<2, 0, 4>>, <<0, 2, 3>>, <<0, 0, 1>> >>
Wide == Some(8)
High == Some(6)

Sensors ==
    << Sensor("sn_front", "CAM_FRONT"),
       Sensor("sn_zoom", "CAM_FRONT_ZOOMED"),
       Sensor("sn_fl", "CAM_FRONT_LEFT"),
       Sensor("sn_fr", "CAM_FRONT_RIGHT"),
       Sensor("sn_back", "CAM_BACK"),
       Sensor("sn_bl", "CAM_BACK_LEFT"),
       Sensor("sn_br", "CAM_BACK_RIGHT"),
       Sensor("sn_lidar", "LIDAR_TOP"),
       Sensor("sn_radar", "RADAR_FRONT"),
       Sensor("sn_lower", "cam_front") >>

\* One calibration per sensor, a camera calibration without intrinsic matrix
\* and a calibration whose sensor is not in sensor.json.
Calibrations ==
    << RawCalibration("c_front", "sn_front", Identity, Origin, JMatrix(Pinhole)),
       RawCalibration("c_zoom", "sn_zoom", Identity, Origin, JMatrix(Pinhole)),
       RawCalibration("c_fl", "sn_fl", Identity, Origin, JMatrix(Pinhole)),
       RawCalibration("c_fr", "sn_fr", Identity, Origin, JMatrix(Pinhole)),
       RawCalibration("c_back", "sn_back", Identity, Origin, JMatrix(Pinhole)),
       RawCalibration("c_bl", "sn_bl", Identity, Origin, JMatrix(Pinhole)),
       RawCalibration("c_br", "sn_br", Identity, Origin, JMatrix(Pinhole)),
       RawCalibration("c_lidar", "sn_lidar", Identity, Origin, JArr(<<>>)),
       RawCalibration("c_radar", "sn_radar", Identity, Origin, JArr(<<>>)),
       RawCalibration("c_lower", "sn_lower", Identity, Origin, JMatrix(Pinhole)),
       RawCalibration("c_bare", "sn_front", Identity, Origin, JArr(<<>>)),
       RawCalibration("c_orphan", "sn_none", Identity, Origin, JMatrix(Pinhole)) >>

\* A box of size 2 straight ahead of the camera at depth 4: seen whole.
Ahead(tok, sample, inst) == Annotation(tok, sample, inst, <<0, 0, 4>>, <<2, 2, 2>>, Identity)

\* Two scenes, a chain of three samples and a chain of one, a camera and a
\* lidar on the first sample, one annotated car.
Base ==
    [scene |-> File(<< Scene("sc1", "s1", 3, "s3"), Scene("sc2", "s3", 1, "s3") >>),
     sample |-> File(<< Sample("s1", "s2", 10), Sample("s2", "s3", 20),
                        Sample("s3", "", 30) >>),
     sample_annotation |-> File(<< Ahead("a1", "s1", "i1") >>),
     sample_data |-> File(<< Data("d1", "s1", "c_front", "e1", Wide, High),
                             Data("d2", "s1", "c_lidar", "e1", None, None),
                             Data("d3", "s2", "c_front", "e1", Wide, High),
                             Data("d4", "s3", "c_back", "e1", Wide, High) >>),
     instance |-> File(<< Instance("i1", "k1"), Instance("i2", "k2"),
                          Instance("i3", "k_none") >>),
     category |-> File(<< Category("k1", "car"), Category("k2", "pedestrian") >>),
     ego_pose |-> File(<< Ego("e1", Identity, Origin) >>),
     calibrated_sensor |-> File(Calibrations),
     sensor |-> File(Sensors)]

FileNames ==
    {"scene", "sample", "sample_annotation", "sample_data", "instance", "category",
     "ego_pose", "calibrated_sensor", "sensor"}

\* The shapes of a camera_intrinsic field.
Intrinsics ==
    { JArr(<<>>),
      JMatrix(Pinhole),
      JNull,
      JNum(5),
      JStr,
      JRow(<<1, 2, 3>>),
      JMatrix(<< <<2, 0, 4>>, <<0, 2, 3>> >>),
      JMatrix(<< <<2, 0, 4>>, <<0, 2, 3>>, <<0, 0, 1>>, <<0, 0, 1>> >>),
      JMatrix(<< <<2, 0>>, <<0, 2>>, <<0, 0>> >>),
      JMatrix(<< <<2, 0, 4, 0>>, <<0, 2, 3, 0>>, <<0, 0, 1, 0>> >>),
      JArr(<< JRow(<<2, 0, 4>>), JRow(<<0, 2, 3>>), JArr(<<JNum(0), JNum(0), JStr>>) >>),
      JArr(<< JRow(<<2, 0, 4>>), JRow(<<0, 2, 3>>), JNull >>) }

\* Datasets in which at most one file is missing or not valid JSON of the
\* record type, and the calibration of the first camera record has a
\* camera_intrinsic of any shape.
FileDatasets ==
    { [[Base EXCEPT !.calibrated_sensor.records[1].camera_intrinsic = k]
          EXCEPT ![f].status = st] :
        k \in Intrinsics, f \in FileNames, st \in {"ok", "missing", "invalid"} }

\* Datasets that differ in the scenes and in the chains of the samples: no
\* scene, one, two, or two records with one token; every sample followed by
\* any sample or by none, so that chains share samples, stop early or go
\* round; the timestamps fall along s1, s2, s3.  Every sample has a camera
\* record.
SceneLists ==
    {<<>>}
    \cup { <<Scene("sc1", f, n, "s3")>> : f \in {"s1", "s3", "s0"}, n \in {1, 3} }
    \cup { <<Scene("sc1", f, 1, "s1"), Scene(t, g, 1, "s3")>> :
             f \in {"s1", "s3", "s0"}, t \in {"sc1", "sc2"},
             g \in {"s1", "s2", "s0"} }
SampleLists ==
    { << Sample("s1", n1, 30), Sample("s2", n2, 20), Sample("s3", n3, 10) >> :
        n1 \in {"s1", "s2", "s3", ""}, n2 \in {"s1", "s2", "s3", ""},
        n3 \in {"s1", ""} }
ChainDatasets ==
    { [Base EXCEPT !.scene.records = sc, !.sample.records = sa] :
        sc \in SceneLists, sa \in SampleLists }

\* Datasets that differ in the two SensorData records of a chain of two
\* samples (a third sample is in no chain) and in the annotations: the first
\* record on the first sample, with or without ego pose, width and height,
\* the second on either sample, with or without ego pose; each with a camera,
\* a lidar, a camera without intrinsic matrix, a calibration without sensor
\* or no calibration at all.
DataRecords(tok, ss, cs, qs) ==
    { Data(tok, s, c, q[1], q[2], q[3]) : s \in ss, c \in cs, q \in qs }
AnnotationLists ==
    { <<>>,
      << Ahead("a1", "s1", "i1") >>,
      << Ahead("a1", "s1", "i1"), Ahead("a2", "s1", "i2"), Ahead("a3", "s2", "i1") >>,
      << Ahead("a1", "s1", "i_none") >>,
      << Ahead("a1", "s1", "i3") >>,
      << Ahead("a1", "s3", "i_none"), Ahead("a2", "s2", "i2") >> }
RecordDatasets ==
    { [Base EXCEPT !.scene.records = << Scene("sc1", "s1", 2, "s2") >>,
                   !.sample.records = << Sample("s1", "s2", 10), Sample("s2", "", 20),
                                         Sample("s3", "", 30) >>,
                   !.sample_data.records = <<x, y>>,
                   !.sample_annotation.records = an] :
        x \in DataRecords("d1", {"s1"}, {"c_front", "c_lidar", "c_bare", "c_none"},
                          { <<"e1", Wide, High>>, <<"e_none", Wide, High>>,
                            <<"e1", None, High>>, <<"e1", Wide, None>> }),
        y \in DataRecords("d2", {"s1", "s2"},
                          {"c_front", "c_back", "c_lidar", "c_bare", "c_orphan", "c_none"},
                          { <<"e1", Wide, High>>, <<"e_none", Wide, High>> }),
        an \in AnnotationLists }

\* Datasets with a record of every sensor on the one sample of the one scene,
\* with or without an annotation.
ChannelDatasets ==
    { [Base EXCEPT !.scene.records = << Scene("sc1", "s3", 1, "s3") >>,
                   !.sample_annotation.records = an,
                   !.sample_data.records =
                       [i \in 1..Len(Sensors) |->
                           Data(Sensors[i].token, "s3", Calibrations[i].token, "e1",
                                Wide, High)]] :
        an \in {<<>>, << Ahead("a1", "s3", "i1") >>} }

\* Datasets that differ in the pose and size of the one annotation and in the
\* poses of the vehicle and of the back camera; the one sample of the scene
\* has a record of the back camera and one of the front camera.
PoseDatasets ==
    { [Base EXCEPT !.scene.records = << Scene("sc1", "s3", 1, "s3") >>,
                   !.sample_data.records =
                       << Data("d4", "s3", "c_back", "e1", Wide, High),
                          Data("d5", "s3", "c_front", "e1", Wide, High) >>,
                   !.sample_annotation.records =
                       << Annotation("a1", "s3", "i1", <<x, y, z>>, sz, r) >>,
                   !.ego_pose.records = << Ego("e1", er, et) >>,
                   !.calibrated_sensor.records[5].rotation = cr,
                   !.calibrated_sensor.records[5].translation = ct] :
        x \in {-2, 0, 3}, y \in {0, 2}, z \in {-3, 1, 2, 5},
        sz \in {<<0, 0, 0>>, <<2, 2, 2>>, <<2, 4, 2>>},
        r \in {Identity, <<0, 0, 0, 2>>},
        er \in {Identity, Third}, et \in {Origin, <<1, 0, -2>>},
        cr \in {Identity, <<0, 1, 0, 0>>}, ct \in {Origin, <<0, 0, 1>>} }

\* ------------------------------------------------------------------ specification

\* import() is entered with nothing loaded.
InitOn(dataset) ==
    /\ input = dataset
    /\ pc = "scene.json"
    /\ result = Running
    /\ scenes = <<>>
    /\ samples = <<>>
    /\ annotations = <<>>
    /\ datas = <<>>
    /\ instances = <<>>
    /\ categories = <<>>
    /\ egos = <<>>
    /\ calibrations = <<>>
    /\ sensors = <<>>
    /\ pending = {}
    /\ scene = ""
    /\ frames = <<>>
    /\ index = 0
    /\ current = ""
    /\ datastreams = <<>>

Init ==
    \/ \E d \in FileDatasets : InitOn(d)
    \/ \E d \in ChainDatasets : InitOn(d)
    \/ \E d \in RecordDatasets : InitOn(d)
    \/ \E d \in ChannelDatasets : InitOn(d)
    \/ \E d \in PoseDatasets : InitOn(d)
Spec == Init /\ [][Next]_vars

\* ------------------------------------------------------------------ chains

RECURSIVE Chain(_, _)
\* The samples reached from token tok through next, up to the first token
\* that is not in the sample index or that the chain has passed already.
Chain(tok, seen) ==
    IF tok \notin DOMAIN samples \/ tok \in seen THEN <<>>
    ELSE <<tok>> \o Chain(samples[tok].next, seen \cup {tok})

RECURSIVE Ends(_, _)
\* The chain from tok meets a token that is not in the sample index: it has
\* finitely many resolvable links.
Ends(tok, seen) ==
    IF tok \notin DOMAIN samples THEN TRUE
    ELSE IF tok \in seen THEN FALSE
    ELSE Ends(samples[tok].next, seen \cup {tok})

RECURSIVE Nth(_, _)
\* The token the walk from tok looks up after k steps.
Nth(tok, k) == IF k = 0 THEN tok ELSE Nth(samples[tok].next, k - 1)

\* Frame k of fs has index k - 1 and is built for the k-th sample from tok.
InChainOrder(fs, tok) ==
    \A k \in 1..Len(fs) : fs[k].index = k - 1 /\ fs[k].of = Nth(tok, k - 1)

\* The frames of the scenes walked to the end, and all frames built so far.
Streams == {datastreams[k] : k \in 1..Len(datastreams)}
AllFrames == UNION {Range(st[2]) : st \in Streams} \cup Range(frames)
Records(frame) == Range(frame.samples)

\* C1: the frames pushed for a scene are those of its chain: the chain from
\* first_sample_token has finitely many resolvable links, N, and the scene has
\* N frames, frame k with index k (from 0) and built for the k-th sample of
\* the chain; the frames of the scene being walked are the first of its chain
\* in the same way.  Neither the timestamps nor last_sample_token nor
\* nbr_samples enter.
C1_FramesFollowChain ==
    /\ \A st \in Streams :
          /\ Ends(scenes[st[1]].first_sample_token, {})
          /\ Len(st[2]) = Len(Chain(scenes[st[1]].first_sample_token, {}))
          /\ InChainOrder(st[2], scenes[st[1]].first_sample_token)
    /\ pc = "walk" =>
          /\ Len(frames) = index
          /\ InChainOrder(frames, scenes[scene].first_sample_token)
          /\ current = Nth(scenes[scene].first_sample_token, index)

\* A scene that declares one sample and whose chain has three, the
\* timestamps running against the chain, has its three frames.
C1_Witness ==
    \E st \in Streams :
        /\ Len(st[2]) = 3
        /\ scenes[st[1]].nbr_samples = 1
        /\ samples[st[2][1].of].timestamp > samples[st[2][3].of].timestamp

\* ------------------------------------------------------------------ channels

\* The allow-list: the seven camera channel names and their canonical ids.
CameraChannels ==
    { <<"CAM_FRONT", "cam::front">>,
      <<"CAM_FRONT_ZOOMED", "cam::front::zoomed">>,
      <<"CAM_FRONT_LEFT", "cam::front::left">>,
      <<"CAM_FRONT_RIGHT", "cam::front::right">>,
      <<"CAM_BACK", "cam::back">>,
      <<"CAM_BACK_LEFT", "cam::back::left">>,
      <<"CAM_BACK_RIGHT", "cam::back::right">> }

\* The raw channel name of the sensor of a SensorData record.
RawChannel(data) == sensors[calibrations[data.calibrated_sensor_token].sensor_token].channel

\* C2: every DetectionRecord of every frame carries one of the seven canonical
\* camera channel ids, and the SensorData record it is built from is on the
\* allow-listed camera channel of that id: a record on any other channel
\* contributes no DetectionRecord.
C2_OnlyCameraChannels ==
    \A f \in AllFrames : \A r \in Records(f) :
        <<RawChannel(r.data), r.channel>> \in CameraChannels

\* A walked scene has a frame with a record of each of the seven cameras,
\* built for a sample that has three more SensorData records (a lidar, a
\* radar and a sensor called cam_front).
C2_Witness ==
    \E st \in Streams : \E k \in 1..Len(st[2]) :
        /\ {r.channel : r \in Records(st[2][k])} = {c[2] : c \in CameraChannels}
        /\ Len(st[2][k].samples) = 7
        /\ Len(datas[st[2][k].of]) = 10
        /\ \E i \in 1..10 : RawChannel(datas[st[2][k].of][i]) = "LIDAR_TOP"

\* ------------------------------------------------------------------ errors

\* C3: a SensorData record of a walked sample whose calibration token is not
\* in the calibration index, or whose calibration names a sensor that is not
\* in the sensor index, never ends import() in a panic.
C3_UnresolvedCalibrationIsNoPanic ==
    result.kind = "panic" => result.why \notin {"calibrated_sensor_token", "sensor_token"}

\* C4: the walk of a chain that goes round visits no more samples than the
\* scene declares.
C4_WalkIsBounded ==
    pc = "walk" /\ ~Ends(scenes[scene].first_sample_token, {})
        => index <= scenes[scene].nbr_samples

\* The shapes of camera_intrinsic a calibration record may have: an empty
\* array or three rows of three numbers.
IsEmptyArray(v) == v.t = "arr" /\ Len(v.a) = 0
IsMatrix(v) ==
    /\ v.t = "arr"
    /\ Len(v.a) = 3
    /\ \A i \in 1..3 : v.a[i].t = "arr" /\ Len(v.a[i].a) = 3 /\ RowIsNumeric(v.a[i])
MatrixOf(v) == << <<v.a[1].a[1].n, v.a[1].a[2].n, v.a[1].a[3].n>>,
                  <<v.a[2].a[1].n, v.a[2].a[2].n, v.a[2].a[3].n>>,
                  <<v.a[3].a[1].n, v.a[3].a[2].n, v.a[3].a[3].n>> >>

\* A file that is there, is JSON of its record type and, for
\* calibrated_sensor.json, has no camera_intrinsic of another shape.
Loadable(name) ==
    /\ input[name].status = "ok"
    /\ name = "calibrated_sensor" =>
          \A i \in 1..Len(input[name].records) :
              \/ IsEmptyArray(input[name].records[i].camera_intrinsic)
              \/ IsMatrix(input[name].records[i].camera_intrinsic)

\* C5: the walk of the scenes begins with all nine collections in their
\* indices, and when one of the nine files cannot be loaded there is no frame
\* and import() ends with an error.
C5_LoadAllOrFail ==
    /\ pc \in {"scenes", "walk"} =>
          /\ scenes = ByToken(input.scene.records)
          /\ samples = ByToken(input.sample.records)
          /\ annotations = BySample(input.sample_annotation.records)
          /\ datas = BySample(input.sample_data.records)
          /\ instances = ByToken(input.instance.records)
          /\ categories = ByToken(input.category.records)
          /\ egos = ByToken(input.ego_pose.records)
          /\ DOMAIN calibrations =
                 {input.calibrated_sensor.records[i].token :
                     i \in 1..Len(input.calibrated_sensor.records)}
          /\ sensors = ByToken(input.sensor.records)
    /\ (\E name \in FileNames : ~Loadable(name)) =>
          /\ AllFrames = {}
          /\ pc \notin {"scenes", "walk"}
          /\ pc = "done" => result.kind = "err"

\* C7: a camera record whose calibration has no intrinsic matrix never ends
\* import() in a panic.
C7_MissingIntrinsicIsNoPanic ==
    result.kind = "panic" => result.why # "camera_intrinsic"

\* C8: a camera_intrinsic that is an empty array decodes to None, one of three
\* rows of three numbers to that matrix, and any other shape ends the load
\* with an error: it neither panics nor reaches the calibration index.
C8_IntrinsicDecoding ==
    /\ result # Panic("deserialize_intrinsic")
    /\ pc \in {"sensor.json", "scenes", "walk"} =>
          \A i \in 1..Len(input.calibrated_sensor.records) :
              LET raw == input.calibrated_sensor.records[i]
              IN  /\ IsEmptyArray(raw.camera_intrinsic) \/ IsMatrix(raw.camera_intrinsic)
                  /\ IsEmptyArray(raw.camera_intrinsic) =>
                        ~calibrations[raw.token].camera_intrinsic.some
                  /\ IsMatrix(raw.camera_intrinsic) =>
                        /\ calibrations[raw.token].camera_intrinsic.some
                        /\ calibrations[raw.token].camera_intrinsic.v
                               = MatrixOf(raw.camera_intrinsic)

\* C9: no two DetectionRecords of a frame carry the same channel id.
C9_OneRecordPerChannel ==
    \A f \in AllFrames : \A i, j \in 1..Len(f.samples) :
        f.samples[i].channel = f.samples[j].channel => i = j

\* ------------------------------------------------------------------ visibility

\* Corner n of the corners c (in the frame of the sensor) passes the three
\* tests for the intrinsic matrix k and an image of w x h pixels: with
\* (u, v, d) = k * corner, 0 < u / d < w, 0 < v / d < h, and depth > 1.
CornerPasses(c, n, k, w, h) ==
    LET u == k[1][1] * c[1][n] + k[1][2] * c[2][n] + k[1][3] * c[3][n]
        v == k[2][1] * c[1][n] + k[2][2] * c[2][n] + k[2][3] * c[3][n]
        d == k[3][1] * c[1][n] + k[3][2] * c[2][n] + k[3][3] * c[3][n]
    IN  /\ d # 0
        /\ d > 0 => 0 < u /\ u < w * d /\ 0 < v /\ v < h * d
        /\ d < 0 => 0 > u /\ u > w * d /\ 0 > v /\ v > h * d
        /\ c[3][n] > 1

\* Every one of the 8 corners c passes.
AllCornersPass(c, k, w, h) == \A n \in 1..8 : CornerPasses(c, n, k, w, h)

\* The annotations of the sample of record r (of frame f) all of whose 8
\* corners pass, by position in the sample's list.
Passing(f, r) ==
    IF f.of \notin DOMAIN annotations THEN {}
    ELSE { i \in 1..Len(annotations[f.of]) :
             AllCornersPass(
                 corners(NuScenes_translate(
                             annotations[f.of][i],
                             egos[r.data.ego_pose_token],
                             calibrations[r.data.calibrated_sensor_token])),
                 calibrations[r.data.calibrated_sensor_token].camera_intrinsic.v,
                 r.data.width.v, r.data.height.v) }

\* The boxes of a DetectionRecord, by label and position.
BoxSlots(r) ==
    UNION { {<<l, i>> : i \in 1..Len(r.annotations[l])} : l \in DOMAIN r.annotations }

\* C6: a DetectionRecord has one box for each annotation of its sample all of
\* whose 8 corners pass the three tests, and no other box: an annotation with
\* one failing corner, such as a corner at depth exactly 1, has none.
C6_BoxIffAllCornersPass ==
    \A f \in AllFrames : \A r \in Records(f) :
        /\ Cardinality(BoxSlots(r)) = Cardinality(Passing(f, r))
        /\ {r.annotations[b[1]][b[2]].id.v : b \in BoxSlots(r)}
               = {annotations[f.of][i].instance_token : i \in Passing(f, r)}

\* Every one of the corners c (in the frame of the sensor) projects inside
\* the image and none is nearer than depth 1, but one is at depth exactly 1.
Grazes(c, k, w, h) ==
    /\ \A n \in 1..8 :
          /\ c[3][n] >= 1
          /\ QGtZero(<<Dot(k[1], c, n), Dot(k[3], c, n)>>)
          /\ QLtInt(<<Dot(k[1], c, n), Dot(k[3], c, n)>>, w)
          /\ QGtZero(<<Dot(k[2], c, n), Dot(k[3], c, n)>>)
          /\ QLtInt(<<Dot(k[2], c, n), Dot(k[3], c, n)>>, h)
    /\ \E n \in 1..8 : c[3][n] = 1

\* A record without box of a sample whose annotation has every corner
\* projected inside the image, a corner at depth exactly 1 and none nearer.
C6_Witness ==
    \E f \in AllFrames : \E r \in Records(f) :
        /\ f.of \in DOMAIN annotations
        /\ BoxSlots(r) = {}
        /\ \E i \in 1..Len(annotations[f.of]) :
              Grazes(corners(NuScenes_translate(
                                 annotations[f.of][i],
                                 egos[r.data.ego_pose_token],
                                 calibrations[r.data.calibrated_sensor_token])),
                     calibrations[r.data.calibrated_sensor_token].camera_intrinsic.v,
                     r.data.width.v, r.data.height.v)

\* C12: a camera record of a walked sample whose ego_pose_token is not in the
\* ego index, an annotation whose instance is not in the instance index and an
\* instance whose category is not in the category index never end import() in
\* a panic, and import() never returns Ok with a DetectionRecord built from a
\* SensorData record whose ego pose does not resolve (the result is all the
\* caller gets: there is nothing else a report could be in).
C12_UnresolvedPoseIsReported ==
    /\ result.kind = "panic" =>
          result.why \notin {"ego_pose_token", "instance_token", "category_token"}
    /\ result.kind = "ok" =>
          \A st \in Streams : \A k \in 1..Len(st[2]) : \A r \in Records(st[2][k]) :
              r.data.ego_pose_token \in DOMAIN egos

\* ------------------------------------------------------------------ images

\* The SensorData records of a sample that are on an allow-listed channel, by
\* position in the sample's list.
OnCamera(tok) ==
    { i \in 1..Len(datas[tok]) :
        /\ datas[tok][i].calibrated_sensor_token \in DOMAIN calibrations
        /\ calibrations[datas[tok][i].calibrated_sensor_token].sensor_token \in DOMAIN sensors
        /\ \E c \in CameraChannels : c[1] = RawChannel(datas[tok][i]) }

\* C13: a frame has a DetectionRecord for each SensorData record of its
\* sample on an allow-listed channel; a record has an image reference exactly
\* when its SensorData record has both width and height; and a SensorData
\* record without width or without height never ends import() in a panic.
C13_ImageIffWidthAndHeight ==
    /\ \A f \in AllFrames :
          /\ Len(f.samples) = Cardinality(OnCamera(f.of))
          /\ \A r \in Records(f) :
                r.image.some <=> (r.data.width.some /\ r.data.height.some)
    /\ result.kind = "panic" => result.why \notin {"width", "height"}

\* ------------------------------------------------------------------ annotations of a sample

\* The records of sample_annotation.json with sample_token tok.
SampleAnnotations(tok) ==
    { input.sample_annotation.records[i] :
        i \in { j \in 1..Len(input.sample_annotation.records) :
                   input.sample_annotation.records[j].sample_token = tok } }

\* The tokens of the samples on the chain of some scene.
Reached ==
    UNION { Range(Chain(scenes[t].first_sample_token, {})) : t \in DOMAIN scenes }

\* An annotation that cannot be projected: its instance or the category of
\* its instance is in no index.
Dangling(a) ==
    \/ a.instance_token \notin DOMAIN instances
    \/ instances[a.instance_token].category_token \notin DOMAIN categories

\* The box of the annotation a of sample_annotation.json for the camera of
\* the DetectionRecord r: a moved by the ego pose and the calibration of r's
\* SensorData record.
BoxOf(a, r) ==
    Region(categories[instances[a.instance_token].category_token].name,
           a.instance_token,
           projection(NuScenes_translate(a, egos[r.data.ego_pose_token],
                                         calibrations[r.data.calibrated_sensor_token]),
                      calibrations[r.data.calibrated_sensor_token].camera_intrinsic.v))

\* C14: every box of a DetectionRecord of the frame of sample S is the box,
\* for the record's camera, of a record of sample_annotation.json with
\* sample_token S as the file has it; import() ends in a panic over an
\* annotation only when the walk is at a sample that has annotations, and
\* over an instance or category only when one of these has none; and the
\* annotation index stays what the load made it.
C14_BoxesOfOwnSample ==
    /\ \A f \in AllFrames : \A r \in Records(f) : \A b \in BoxSlots(r) :
          \E a \in SampleAnnotations(f.of) : r.annotations[b[1]][b[2]] = BoxOf(a, r)
    /\ (result.kind = "panic"
          /\ result.why \in {"ego_pose_token", "camera_intrinsic", "instance_token",
                              "category_token", "width", "height"})
          => SampleAnnotations(current) # {}
    /\ (result.kind = "panic" /\ result.why \in {"instance_token", "category_token"})
          => \E a \in SampleAnnotations(current) : Dangling(a)
    /\ (pc \in {"scenes", "walk"} \/ result.kind = "ok")
          => annotations = BySample(input.sample_annotation.records)

\* import() returns Ok with a box of a pedestrian in the frame of the second
\* sample, while a sample on no chain has an annotation that cannot be
\* projected.
C14_Witness ==
    /\ result.kind = "ok"
    /\ \E tok \in DOMAIN annotations \ Reached :
          \E i \in 1..Len(annotations[tok]) : Dangling(annotations[tok][i])
    /\ \E st \in Streams : \E r \in Records(st[2][2]) :
          /\ "pedestrian" \in DOMAIN r.annotations
          /\ SampleAnnotations(st[2][1].of) = {}

\* ------------------------------------------------------------------ boxes

\* The image-plane x and y of corner n of the corners c (in the frame of the
\* sensor) for the intrinsic matrix k, as quotients in lowest terms.
ImageX(c, k, n) == Reduce(<<Dot(k[1], c, n), Dot(k[3], c, n)>>)
ImageY(c, k, n) == Reduce(<<Dot(k[2], c, n), Dot(k[3], c, n)>>)

\* The image x and the image y of the 8 corners.
ImageXs(c, k) ==
    << ImageX(c, k, 1), ImageX(c, k, 2), ImageX(c, k, 3), ImageX(c, k, 4),
       ImageX(c, k, 5), ImageX(c, k, 6), ImageX(c, k, 7), ImageX(c, k, 8) >>
ImageYs(c, k) ==
    << ImageY(c, k, 1), ImageY(c, k, 2), ImageY(c, k, 3), ImageY(c, k, 4),
       ImageY(c, k, 5), ImageY(c, k, 6), ImageY(c, k, 7), ImageY(c, k, 8) >>

\* lo and hi are the least and the greatest of the 8 quotients q[1..8].
Extent(q, lo, hi) == \A n \in 1..8 : QLe(lo, q[n]) /\ QLe(q[n], hi)

\* Along one axis, a box of the given centre and size spans the 8 quotients
\* q: from their least to their greatest, centred half way between the two.
SpansAxis(centre, size, q) ==
    \E n1, n2 \in 1..8 :
        /\ size = QSub(q[n2], q[n1])
        /\ centre = QHalf(QAdd(q[n1], q[n2]))
        /\ Extent(q, q[n1], q[n2])

\* The box b is the box of the corners c for the intrinsic matrix k.
Spans(b, c, k) ==
    /\ SpansAxis(b.center[1], b.width, ImageXs(c, k))
    /\ SpansAxis(b.center[2], b.height, ImageYs(c, k))

\* The box b, found under label l in the DetectionRecord r, is the box of
\* the annotation a.
IsBoxOf(b, l, a, r) ==
    /\ l = categories[instances[a.instance_token].category_token].name
    /\ b.label = l
    /\ b.id = Some(a.instance_token)
    /\ b.score = 1
    /\ Spans(b,
             corners(NuScenes_translate(a, egos[r.data.ego_pose_token],
                                        calibrations[r.data.calibrated_sensor_token])),
             calibrations[r.data.calibrated_sensor_token].camera_intrinsic.v)

\* The boxes of the record r of frame f, in the slots given, are the boxes of
\* the annotations of the sample at the positions given, one each.
BoxesAre(f, r, slots, positions) ==
    /\ Cardinality(slots) = Cardinality(positions)
    /\ \A i \in positions : \E b \in slots :
          IsBoxOf(r.annotations[b[1]][b[2]], b[1], annotations[f.of][i], r)
    /\ \A b \in slots : \E i \in positions :
          IsBoxOf(r.annotations[b[1]][b[2]], b[1], annotations[f.of][i], r)

\* C15: a DetectionRecord has as many boxes as its sample has annotations
\* that pass the visibility tests, and each of these has its box: under the
\* name of the category of its instance, with that name as label, its instance
\* token as id, score 1, centre ((xmin + xmax) / 2, (ymin + ymax) / 2), width
\* xmax - xmin and height ymax - ymin over its 8 projected corners; and every
\* box is the box of such an annotation.
C15_BoxOfVisibleAnnotation ==
    \A f \in AllFrames : \A r \in Records(f) : BoxesAre(f, r, BoxSlots(r), Passing(f, r))

\* The back camera, on a vehicle turned by a third of a turn, has a box that
\* is wider than high and is not centred on the principal point of the
\* camera, in a frame in which the front camera has no box.
C15_Witness ==
    \E f \in AllFrames : \E r \in Records(f) : \E b \in BoxSlots(r) :
        /\ r.annotations[b[1]][b[2]].height[1] > 0
        /\ QLe(r.annotations[b[1]][b[2]].height, r.annotations[b[1]][b[2]].width)
        /\ r.annotations[b[1]][b[2]].height # r.annotations[b[1]][b[2]].width
        /\ r.annotations[b[1]][b[2]].center[1] # <<4, 1>>
        /\ r.annotations[b[1]][b[2]].center[2] # <<3, 1>>
        /\ r.data.calibrated_sensor_token = "c_back"
        /\ egos[r.data.ego_pose_token].rotation = Third
        /\ \E g \in Records(f) : BoxSlots(g) = {}

\* ------------------------------------------------------------------ frames of reference

\* The poses an annotation of a DetectionRecord's sample was moved by: the
\* ego pose of the record's SensorData and the pose of its calibration.
PosesOf(r) ==
    { [translation |-> egos[r.data.ego_pose_token].translation,
       rotation |-> from_quaternion(egos[r.data.ego_pose_token].rotation)],
      [translation |-> calibrations[r.data.calibrated_sensor_token].translation,
       rotation |-> from_quaternion(calibrations[r.data.calibrated_sensor_token].rotation)] }

\* The (annotation, pose) pairs of the records built so far.
Moved ==
    UNION { UNION { {<<annotations[f.of][i], p>> : i \in 1..Len(annotations[f.of]),
                                                  p \in PosesOf(r)} :
                      r \in Records(f) } :
              f \in {g \in AllFrames : g.of \in DOMAIN annotations} }

\* The annotation a in the frame of pose p: moved by the inverse translation,
\* then turned by the inverse rotation.
ToLocal(a, p) == transform(a, Negate(p.translation), inverse(p.rotation))

\* Its way back by transform() with the inverse pair, (p.translation,
\* p.rotation), and by the inverse steps in the reverse order.
BackByTransform(a, p) == transform(ToLocal(a, p), p.translation, p.rotation)
BackInReverse(a, p) == Annotation_translate(rotate(ToLocal(a, p), p.rotation), p.translation)

\* The annotation b has the position and the orientation of a.
SamePose(a, b) ==
    /\ b.translation = a.translation
    /\ from_quaternion(b.rotation) = from_quaternion(a.rotation)

\* C11 as stated: an annotation moved into the frame of a pose by transform()
\* and then moved by transform() with the inverse translation and the inverse
\* rotation of that step has its original translation and rotation.
C11_RoundTripByTransform ==
    \A m \in Moved : SamePose(m[1], BackByTransform(m[1], m[2]))

\* C11 as amended: the inverse steps in the reverse order (turn back, then
\* move back) return the original translation and rotation; transform() with
\* the inverse pair returns the original rotation, and the translation
\* p - T + R * T for the pose (T, R), which is the original one exactly when
\* the rotation leaves the translation of the pose where it is.
C11_RoundTripInReverseOrder ==
    \A m \in Moved :
        /\ SamePose(m[1], BackInReverse(m[1], m[2]))
        /\ from_quaternion(BackByTransform(m[1], m[2]).rotation)
               = from_quaternion(m[1].rotation)
        /\ BackByTransform(m[1], m[2]).translation
               = << m[1].translation[1] - m[2].translation[1]
                      + MatVec(to_rotation_matrix(m[2].rotation), m[2].translation)[1],
                    m[1].translation[2] - m[2].translation[2]
                      + MatVec(to_rotation_matrix(m[2].rotation), m[2].translation)[2],
                    m[1].translation[3] - m[2].translation[3]
                      + MatVec(to_rotation_matrix(m[2].rotation), m[2].translation)[3] >>

\* A record was built for an annotation that is not at the origin, is turned
\* and has a box, under an ego pose with a translation that its rotation by a
\* third of a turn moves: transform() with the inverse pair does not return
\* the annotation, the inverse steps in the reverse order do.
C11_Witness ==
    \E m \in Moved :
        /\ m[2].rotation = Third
        /\ m[2].translation # Origin
        /\ m[1].translation # Origin
        /\ m[1].rotation # Identity
        /\ ~SamePose(m[1], BackByTransform(m[1], m[2]))
        /\ SamePose(m[1], BackInReverse(m[1], m[2]))

\* ------------------------------------------------------------------ order of the steps

\* The transpose of a 3x3 matrix: of a rotation matrix, its inverse.
Transpose(m) ==
    << <<m[1][1], m[2][1], m[3][1]>>,
       <<m[1][2], m[2][2], m[3][2]>>,
       <<m[1][3], m[2][3], m[3][3]>> >>

\* The pose (translation, rotation as a unit quaternion) in the frame whose
\* origin is at t and whose axes are turned by the unit quaternion q: the
\* translation less t, then turned back; the rotation with q's inverse
\* before it.
InFrame(pose, t, q) ==
    [translation |->
         MatVec(Transpose(to_rotation_matrix(q)),
                << pose.translation[1] - t[1], pose.translation[2] - t[2],
                   pose.translation[3] - t[3] >>),
     rotation |-> QMul(inverse(q), pose.rotation)]

\* The same steps in the other order: turned back, then less t.
InFrameTurnedFirst(pose, t, q) ==
    [translation |->
         << MatVec(Transpose(to_rotation_matrix(q)), pose.translation)[1] - t[1],
            MatVec(Transpose(to_rotation_matrix(q)), pose.translation)[2] - t[2],
            MatVec(Transpose(to_rotation_matrix(q)), pose.translation)[3] - t[3] >>,
     rotation |-> QMul(inverse(q), pose.rotation)]

PoseOf(a) == [translation |-> a.translation, rotation |-> from_quaternion(a.rotation)]

\* The pose of the annotation a in the frame of the vehicle, and from there
\* in the frame of the sensor.
InSensorFrame(a, ego, calibration) ==
    InFrame(InFrame(PoseOf(a), ego.translation, from_quaternion(ego.rotation)),
            calibration.translation, from_quaternion(calibration.rotation))

\* The annotation a at the pose given.
At(a, pose) == [a EXCEPT !.translation = pose.translation, !.rotation = pose.rotation]

\* C16: the annotation NuScenes::translate hands to the projection has the
\* pose of the original annotation taken into the frame of the ego pose and
\* from there into the frame of the calibration, each time by subtracting the
\* translation of the frame and then turning the difference by the inverse of
\* the rotation of the frame, the orientation being the inverse rotation
\* times the orientation; and the boxes of every DetectionRecord are those of
\* the annotations at that pose.
C16_SubtractThenRotateEgoThenSensor ==
    \A f \in {g \in AllFrames : g.of \in DOMAIN annotations} : \A r \in Records(f) :
        /\ \A i \in 1..Len(annotations[f.of]) :
              PoseOf(NuScenes_translate(annotations[f.of][i],
                                        egos[r.data.ego_pose_token],
                                        calibrations[r.data.calibrated_sensor_token]))
                  = InSensorFrame(annotations[f.of][i],
                                  egos[r.data.ego_pose_token],
                                  calibrations[r.data.calibrated_sensor_token])
        /\ \A b \in BoxSlots(r) : \E i \in 1..Len(annotations[f.of]) :
              /\ r.annotations[b[1]][b[2]].id = Some(annotations[f.of][i].instance_token)
              /\ Spans(r.annotations[b[1]][b[2]],
                       corners(At(annotations[f.of][i],
                                  InSensorFrame(annotations[f.of][i],
                                                egos[r.data.ego_pose_token],
                                                calibrations[r.data.calibrated_sensor_token]))),
                       calibrations[r.data.calibrated_sensor_token].camera_intrinsic.v)

\* The poses of the record r are such that the order shows: the vehicle is
\* turned by a third of a turn and the sensor by another rotation, neither is
\* at the origin, and for the annotation a neither turning first nor taking
\* the sensor's pose first gives the pose in the frame of the sensor.
OrderShows(a, ego, calibration) ==
    /\ from_quaternion(ego.rotation) = Third
    /\ from_quaternion(calibration.rotation) \notin {from_quaternion(Identity), Third}
    /\ ego.translation # Origin
    /\ calibration.translation # Origin
    /\ InSensorFrame(a, ego, calibration).translation
          # InFrame(InFrame(PoseOf(a), calibration.translation,
                            from_quaternion(calibration.rotation)),
                    ego.translation, from_quaternion(ego.rotation)).translation
    /\ InSensorFrame(a, ego, calibration).translation
          # InFrameTurnedFirst(
                InFrameTurnedFirst(PoseOf(a), ego.translation, from_quaternion(ego.rotation)),
                calibration.translation, from_quaternion(calibration.rotation)).translation
    /\ InSensorFrame(a, ego, calibration).translation
          # InFrame(InFrame(PoseOf(a), ego.translation,
                            inverse(from_quaternion(ego.rotation))),
                    calibration.translation,
                    from_quaternion(calibration.rotation)).translation

\* A record has the box of an annotation under poses for which the order
\* shows.
C16_Witness ==
    \E f \in {g \in AllFrames : g.of \in DOMAIN annotations} : \E r \in Records(f) :
        /\ BoxSlots(r) # {}
        /\ OrderShows(annotations[f.of][1], egos[r.data.ego_pose_token],
                      calibrations[r.data.calibrated_sensor_token])

\* ------------------------------------------------------------------ samples without data

\* C17: a walked sample that no record of sample_data.json names never ends
\* import() in a panic: its frame, without DetectionRecords, is at its place
\* in the chain; and the entry of a scene whose first_sample_token is in no
\* record of sample.json has no frames.
C17_SampleWithoutDataHasFrame ==
    /\ result.kind = "panic" => result.why # "sample_data"
    /\ \A f \in AllFrames : f.of \notin DOMAIN datas => f.samples = <<>>
    /\ \A st \in Streams :
          scenes[st[1]].first_sample_token \notin DOMAIN samples => st[2] = <<>>
    /\ result.kind = "ok" =>
          \A t \in DOMAIN scenes :
              scenes[t].first_sample_token \notin DOMAIN samples
                  => \E st \in Streams : st[1] = t

\* ------------------------------------------------------------------ scenes

RECURSIVE WalkFrames(_, _)
\* The frames of the chain from token tok, the first with index i, from the
\* indices alone.
WalkFrames(tok, i) ==
    IF tok \notin DOMAIN samples THEN <<>>
    ELSE <<BuildFrame(i, samples[tok]).frame>> \o WalkFrames(samples[tok].next, i + 1)

\* C10: the pairs pushed are of distinct scenes of the scene index, each with
\* the frames of the chain of its scene, whatever the other scenes are and
\* whichever were walked before; and Ok(datastreams) has a pair for every
\* scene token of scene.json.
C10_OneStreamPerScene ==
    /\ \A k \in 1..Len(datastreams) :
          /\ datastreams[k][1] \in DOMAIN scenes
          /\ \A j \in 1..Len(datastreams) : datastreams[j][1] = datastreams[k][1] => j = k
          /\ datastreams[k][2]
                 = WalkFrames(scenes[datastreams[k][1]].first_sample_token, 0)
    /\ result.kind = "ok" =>
          {datastreams[k][1] : k \in 1..Len(datastreams)}
              = {input.scene.records[i].token : i \in 1..Len(input.scene.records)}

\* import() returns two scenes, the scene of one frame pushed before the
\* scene of three that comes first in scene.json.
C10_Witness ==
    /\ result.kind = "ok"
    /\ Len(datastreams) = 2
    /\ Len(datastreams[1][2]) = 1
    /\ Len(datastreams[2][2]) = 3
    /\ datastreams[2][1] = input.scene.records[1].token

====
